---- MODULE Spec2Model ----
(***************************************************************************)
(* Model of package offheap (malloc.go): the lifecycle of an MmapMalloc    *)
(* region -- Malloc, TruncateTo, Free, BlockUntilSync, BackgroundSync,     *)
(* Growmap -- over a small filesystem, a table of os.File objects and the  *)
(* mappings handed out by the mmap library.                                *)
(*                                                                         *)
(* A Go panic is modelled as the operation ending with an error result;    *)
(* what the operation had already done to the filesystem or to the file    *)
(* table before the panic stays done.  The kind of the error follows what  *)
(* is thrown: a panic with a message string of the package's own (or the   *)
(* error Growmap returns from its guards) is a "ConfigurationError",       *)
(* panic(err) with err from an os.File call is an "IOError", panic(err)    *)
(* with err from the mmap library is a "MappingError".                     *)
(***************************************************************************)
EXTENDS Integers, Sequences, FiniteSets, TLC

\* ---------------------------------------------------------------- bounds
MaxSize == 2        \* byte counts range over -1 .. MaxSize
MaxAllocs == 2      \* Malloc calls in one run that construct a region or open a file

\* ------------------------------------------------------------- constants
AnonFd == -1        \* mm.Fd of an anonymous region
NilFile == 0        \* a nil *os.File (os.File objects are numbered from 1)
FirstFd == 3        \* lowest descriptor the OS hands out (0,1,2 are stdio)

FilePaths == {"f", "d"}          \* "d" names a directory, "f" a file path
PathArgs == {""} \cup FilePaths
Sizes == (-1)..MaxSize

VARIABLES
    fs,      \* filesystem: path -> [kind: "absent"|"file"|"dir", len]
    files,   \* os.File objects: <<[path, fd, closed, nclose]>>
    regs,    \* MmapMalloc objects, in order of construction
    last     \* the last call: operation, arguments, result, returned region

vars == <<fs, files, regs, last>>

\* ------------------------------------------------ filesystem capability
dirExists(path) == fs[path].kind = "dir"
fileExists(path) == fs[path].kind = "file"

OpenFds == {files[h].fd : h \in {k \in 1..Len(files) : ~files[k].closed}}

\* the OS hands out the lowest descriptor not in use
NextFd == CHOOSE d \in FirstFd..(FirstFd + Len(files)) :
             /\ d \notin OpenFds
             /\ \A e \in FirstFd..(d - 1) : e \in OpenFds

\* os.Create / os.OpenFile(O_RDWR): a new os.File on path
OpenedFile(path) == [path |-> path, fd |-> NextFd, closed |-> FALSE, nclose |-> 0]

\* (*os.File).Truncate(size): the error it returns, "" for none.
\* A nil receiver gives os.ErrInvalid, a closed file os.ErrClosed,
\* a negative size EINVAL from ftruncate(2).
FileTruncateErr(fl, h, size) ==
    IF h = NilFile THEN "ErrInvalid"
    ELSE IF fl[h].closed THEN "ErrClosed"
    ELSE IF size < 0 THEN "EINVAL"
    ELSE ""

\* the filesystem after a successful Truncate of path to size
Truncated(f, path, size) == [f EXCEPT ![path] = [kind |-> "file", len |-> size]]

\* ---------------------------------------------------- mapping capability
NilMap == [mapped |-> FALSE, len |-> 0]

\* mmap.MapRegion(nil, length, RDWR, ANON, 0): the library refuses an
\* anonymous mapping of length <= 0
MapAnonErr(length) == IF length <= 0 THEN "EINVAL" ELSE ""

\* mmap.Map(file, RDWR, 0): maps the whole file, the length being the
\* file's size at the time of the call; mmap(2) refuses length 0
MapFileLen(f, fl, h) == f[fl[h].path].len
MapFileErr(f, fl, h) ==
    IF h = NilFile THEN "ErrInvalid"
    ELSE IF fl[h].closed THEN "ErrClosed"
    ELSE IF MapFileLen(f, fl, h) <= 0 THEN "EINVAL"
    ELSE ""

Mapping(length) == [mapped |-> TRUE, len |-> length]

\* -------------------------------------------------------------- results
Call(op, reg, size, path, res, ret) ==
    [op |-> op, reg |-> reg, size |-> size, path |-> path, res |-> res, ret |-> ret]

Init ==
    /\ fs \in [FilePaths -> [kind : {"absent", "file", "dir"}, len : 0..MaxSize]]
    /\ fs["d"] = [kind |-> "dir", len |-> 0]
    /\ fs["f"].kind \in {"absent", "file"}
    /\ (fs["f"].kind = "absent" => fs["f"].len = 0)
    /\ files = <<>>
    /\ regs = <<>>
    /\ last = Call("init", 0, 0, "", "ok", 0)

\* ---------------------------------------------------------------- Malloc
\* the arguments Malloc panics on before it touches anything
\* variant: the directory test left out
MallocConfigErrNoDirCheck(numBytes, path) ==
    path = "" /\ numBytes < 0

MallocConfigErr(numBytes, path) ==
    IF path = "" THEN numBytes < 0 ELSE dirExists(path)

\* the filesystem once Malloc has created or opened path
MallocOpened(path) ==
    IF ~fileExists(path)
    THEN Truncated(fs, path, 0)     \* os.Create: a new, empty file
    ELSE fs                         \* os.OpenFile(O_RDWR): as it is

\* variant: the requested size used even when it is negative
ResolvedSizeNoStat(numBytes, f, path) == numBytes

\* sz: the file's size when numBytes is negative, else numBytes
ResolvedSize(numBytes, f, path) ==
    IF numBytes < 0 THEN f[path].len ELSE numBytes

\* variant: the file extended but never shortened
MallocSizedGrowOnly(numBytes, f, path) ==
    IF numBytes < 0 \/ f[path].len >= numBytes THEN f
    ELSE Truncated(f, path, numBytes)

\* variant: the file truncated on the inherit-size path too
MallocSizedAlways(numBytes, f, path) ==
    Truncated(f, path, IF numBytes < 0 THEN 0 ELSE numBytes)

\* the filesystem once Malloc has sized the file it opened
MallocSized(numBytes, f, path) ==
    IF numBytes < 0 THEN f ELSE Truncated(f, path, numBytes)

\* variant: mm.Fd left at its zero value
AnonRegionFdUnset(numBytes) ==
    [Path |-> "", File |-> NilFile, Fd |-> 0,
     FileBytesLen |-> 0, BytesAlloc |-> numBytes,
     MMap |-> Mapping(numBytes), Mem |-> Mapping(numBytes)]

\* the MmapMalloc of an anonymous allocation
AnonRegion(numBytes) ==
    [Path |-> "", File |-> NilFile, Fd |-> AnonFd,
     FileBytesLen |-> 0, BytesAlloc |-> numBytes,
     MMap |-> Mapping(numBytes), Mem |-> Mapping(numBytes)]

\* the MmapMalloc of a file-backed allocation: handle h, resolved size sz,
\* buffer of the length the library mapped
FileRegion(path, h, fd, sz, maplen) ==
    [Path |-> path, File |-> h, Fd |-> fd,
     FileBytesLen |-> sz, BytesAlloc |-> sz,
     MMap |-> Mapping(maplen), Mem |-> Mapping(maplen)]

\* what Malloc has constructed so far: the regions it returned, and the
\* files it opened and left open when the mapping failed
Constructed ==
    Len(regs) + Len(files)
        - Cardinality({r \in 1..Len(regs) : regs[r].File # NilFile})

Malloc(numBytes, path) ==
    /\ Constructed < MaxAllocs
    /\ IF MallocConfigErr(numBytes, path)
       THEN /\ last' = Call("Malloc", 0, numBytes, path, "ConfigurationError", 0)
            /\ UNCHANGED <<fs, files, regs>>
       ELSE IF path = ""
       THEN IF MapAnonErr(numBytes) # ""
            THEN /\ last' = Call("Malloc", 0, numBytes, path, "MappingError", 0)
                 /\ UNCHANGED <<fs, files, regs>>
            ELSE /\ regs' = Append(regs, AnonRegion(numBytes))
                 /\ last' = Call("Malloc", 0, numBytes, path, "ok", Len(regs) + 1)
                 /\ UNCHANGED <<fs, files>>
       ELSE LET fs1 == MallocOpened(path)
                h == Len(files) + 1
                files1 == Append(files, OpenedFile(path))
                sz == ResolvedSize(numBytes, fs1, path)
                fs2 == MallocSized(numBytes, fs1, path)
            IN  /\ fs' = fs2
                /\ files' = files1
                /\ IF MapFileErr(fs2, files1, h) # ""
                   THEN /\ last' = Call("Malloc", 0, numBytes, path, "MappingError", 0)
                        /\ UNCHANGED regs
                   ELSE /\ regs' = Append(regs,
                               FileRegion(path, h, files1[h].fd, sz,
                                          MapFileLen(fs2, files1, h)))
                        /\ last' = Call("Malloc", 0, numBytes, path, "ok", Len(regs) + 1)

\* ------------------------------------------------------------ TruncateTo
\* variant: the nil-file test left out
TruncateToConfigErrNoCheck(mm) == FALSE

\* TruncateTo panics on a region that has no file
TruncateToConfigErr(mm) == mm.File = NilFile

TruncateTo(r, newSize) ==
    LET mm == regs[r] IN
    IF TruncateToConfigErr(mm)
    THEN /\ last' = Call("TruncateTo", r, newSize, mm.Path, "ConfigurationError", 0)
         /\ UNCHANGED <<fs, files, regs>>
    ELSE IF FileTruncateErr(files, mm.File, newSize) # ""
    THEN /\ last' = Call("TruncateTo", r, newSize, mm.Path, "IOError", 0)
         /\ UNCHANGED <<fs, files, regs>>
    ELSE /\ fs' = Truncated(fs, files[mm.File].path, newSize)
         /\ last' = Call("TruncateTo", r, newSize, mm.Path, "ok", 0)
         /\ UNCHANGED <<files, regs>>

\* ------------------------------------------------------------------ Free
\* (*os.File).Close(): closes the descriptor of an open file; on a file
\* already closed it returns os.ErrClosed and closes nothing
FileClose(fl, h) ==
    IF fl[h].closed THEN fl
    ELSE [fl EXCEPT ![h].closed = TRUE, ![h].nclose = @ + 1]

\* the file table once Free has dealt with mm.File (Close's error is dropped)
FreeClosed(fl, mm) ==
    IF mm.File # NilFile THEN FileClose(fl, mm.File) ELSE fl

\* (*MMap).Unmap(): munmap of a nil slice fails; the slice is nil afterwards
UnmapErr(m) == IF ~m.mapped THEN "EINVAL" ELSE ""

Free(r) ==
    LET mm == regs[r] IN
    /\ files' = FreeClosed(files, mm)
    /\ regs' = [regs EXCEPT ![r].MMap = NilMap]
    /\ last' = Call("Free", r, 0, mm.Path,
                    IF UnmapErr(mm.MMap) # "" THEN "MappingError" ELSE "ok", 0)
    /\ UNCHANGED fs

\* ------------------------------------------------------------------ sync
\* MMap.Flush()'s return value is discarded: both calls return normally
\* whatever the state of the mapping
BlockUntilSync(r) ==
    /\ last' = Call("BlockUntilSync", r, 0, regs[r].Path, "ok", 0)
    /\ UNCHANGED <<fs, files, regs>>

BackgroundSync(r) ==
    /\ last' = Call("BackgroundSync", r, 0, regs[r].Path, "ok", 0)
    /\ UNCHANGED <<fs, files, regs>>

\* --------------------------------------------------------------- Growmap
GrowNotFileBacked(oldmap) == oldmap.Path = "" \/ oldmap.Fd <= 0

GrowNotLarger(oldmap, newSize) ==
    newSize <= oldmap.BytesAlloc \/ newSize <= oldmap.FileBytesLen

\* newmap = &MmapMalloc{}; Path and Fd copied; File is left nil
GrowNewmap(oldmap) ==
    [Path |-> oldmap.Path, File |-> NilFile, Fd |-> oldmap.Fd,
     FileBytesLen |-> 0, BytesAlloc |-> 0, MMap |-> NilMap, Mem |-> NilMap]

Growmap(r, newSize) ==
    LET oldmap == regs[r] IN
    IF GrowNotFileBacked(oldmap) \/ GrowNotLarger(oldmap, newSize)
    THEN /\ last' = Call("Growmap", r, newSize, oldmap.Path, "ConfigurationError", 0)
         /\ UNCHANGED <<fs, files, regs>>
    ELSE LET newmap == GrowNewmap(oldmap) IN
         IF FileTruncateErr(files, newmap.File, newSize) # ""
         THEN /\ last' = Call("Growmap", r, newSize, oldmap.Path, "IOError", 0)
              /\ UNCHANGED <<fs, files, regs>>
         ELSE LET fs1 == Truncated(fs, files[newmap.File].path, newSize) IN
              /\ fs' = fs1
              /\ UNCHANGED files
              /\ IF MapFileErr(fs1, files, newmap.File) # ""
                 THEN /\ last' = Call("Growmap", r, newSize, oldmap.Path, "MappingError", 0)
                      /\ UNCHANGED regs
                 ELSE /\ Constructed < MaxAllocs
                      /\ regs' = Append(regs,
                             [newmap EXCEPT
                                 !.FileBytesLen = newSize, !.BytesAlloc = newSize,
                                 !.MMap = Mapping(MapFileLen(fs1, files, newmap.File)),
                                 !.Mem = Mapping(MapFileLen(fs1, files, newmap.File))])
                      /\ last' = Call("Growmap", r, newSize, oldmap.Path, "ok", Len(regs) + 1)

\* ------------------------------------------------- access to the buffer
\* copy(mm.Mem[i:i+1], b), as the package's test writes into the region.
\* Mem keeps its length after Free (only MMap is set to nil), so the slice
\* expression passes and the store goes to unmapped memory: it faults, or
\* lands in whatever has been mapped there since.  A store to a file-backed
\* page that lies wholly beyond the end of the file raises SIGBUS.
WriteOutcomes(mm, i) ==
    IF i >= mm.Mem.len THEN {"RangePanic"}
    ELSE IF ~mm.MMap.mapped THEN {"SIGSEGV", "ok"}
    ELSE IF mm.File # NilFile /\ fs[mm.Path].len = 0 THEN {"SIGBUS"}
    ELSE {"ok"}

WriteMem(r, i) ==
    /\ \E res \in WriteOutcomes(regs[r], i) :
           last' = Call("WriteMem", r, i, regs[r].Path, res, 0)
    /\ UNCHANGED <<fs, files, regs>>

\* ------------------------------------------------------------------ Next
Regions == 1..Len(regs)

Next ==
    \/ \E n \in Sizes, p \in PathArgs : Malloc(n, p)
    \/ \E r \in Regions, n \in Sizes : TruncateTo(r, n)
    \/ \E r \in Regions : Free(r)
    \/ \E r \in Regions : BlockUntilSync(r)
    \/ \E r \in Regions : BackgroundSync(r)
    \/ \E r \in Regions, n \in Sizes : Growmap(r, n)
    \/ \E r \in Regions, i \in 0..MaxSize : WriteMem(r, i)

Spec == Init /\ [][Next]_vars
\* ================================================================ claims
Live(mm) == mm.MMap.mapped
IsMalloc(c) == c.op = "Malloc"
\* the region a successful call returned is the one just constructed
ReturnedNew(c) == c.ret = Len(regs) + 1 /\ Len(regs') = Len(regs) + 1
                  /\ \A r \in Regions : regs'[r] = regs[r]
AnonShape(mm, n) ==
    /\ Live(mm) /\ mm.Mem.len = n /\ mm.MMap.len = n /\ mm.BytesAlloc = n
    /\ mm.File = NilFile /\ mm.Fd = AnonFd /\ mm.Path = ""

\* C1 as stated: for every sizeBytes >= 0, allocate(sizeBytes, "") succeeds
\* and returns a live anonymous region of exactly sizeBytes bytes, with no
\* file handle, descriptor -1 and an empty path.
C1_AnonAllocateFromZero ==
    [][ (IsMalloc(last') /\ last'.path = "" /\ last'.size >= 0) =>
            /\ last'.res = "ok"
            /\ ReturnedNew(last')
            /\ AnonShape(regs'[last'.ret], last'.size) ]_vars

\* C1 amended: for every sizeBytes > 0, allocate(sizeBytes, "") succeeds and
\* returns a live anonymous region whose buffer length and allocatedLength
\* are sizeBytes, with no file handle, descriptor -1 and an empty path,
\* touching neither the filesystem nor the file table; a write at any
\* offset below sizeBytes succeeds while the region is live, and free of
\* the live region succeeds.  allocate(0, "") fails with a MappingError and
\* constructs nothing.
C1_AnonAllocate ==
    [][ /\ (IsMalloc(last') /\ last'.path = "" /\ last'.size > 0) =>
              /\ last'.res = "ok"
              /\ ReturnedNew(last')
              /\ AnonShape(regs'[last'.ret], last'.size)
              /\ UNCHANGED <<fs, files>>
        /\ (IsMalloc(last') /\ last'.path = "" /\ last'.size = 0) =>
              /\ last'.res = "MappingError"
              /\ UNCHANGED <<fs, files, regs>>
        /\ (last'.op = "WriteMem" /\ AnonShape(regs[last'.reg], regs[last'.reg].BytesAlloc)
                /\ last'.size < regs[last'.reg].BytesAlloc) =>
              last'.res = "ok"
        /\ (last'.op = "Free" /\ AnonShape(regs[last'.reg], regs[last'.reg].BytesAlloc)) =>
              /\ last'.res = "ok"
              /\ ~Live(regs'[last'.reg]) ]_vars

\* an anonymous region of the largest size was allocated and then freed
C1_Witness ==
    /\ last.op = "Free" /\ last.res = "ok"
    /\ regs[last.reg].Path = "" /\ regs[last.reg].Fd = AnonFd
    /\ regs[last.reg].BytesAlloc = MaxSize /\ regs[last.reg].Mem.len = MaxSize
    /\ ~Live(regs[last.reg])

FileShape(mm, n) ==
    /\ Live(mm) /\ mm.BytesAlloc = n /\ mm.FileBytesLen = n
    /\ mm.MMap.len = n /\ mm.Mem.len = n
    /\ mm.File # NilFile /\ mm.File \in 1..Len(files')
    /\ ~files'[mm.File].closed
    /\ mm.Fd = files'[mm.File].fd
    /\ files'[mm.File].path = mm.Path

\* C2 as stated: allocate(N, path) with N >= 0 and path not a directory
\* leaves the file with length exactly N and returns a live file-backed
\* region with allocatedLength == fileLength == N, a file handle and the
\* descriptor of that handle.
C2_FileAllocateFromZero ==
    [][ (IsMalloc(last') /\ last'.path # "" /\ last'.size >= 0
            /\ ~dirExists(last'.path)) =>
            /\ fs'[last'.path] = [kind |-> "file", len |-> last'.size]
            /\ last'.res = "ok"
            /\ ReturnedNew(last')
            /\ regs'[last'.ret].Path = last'.path
            /\ FileShape(regs'[last'.ret], last'.size) ]_vars

\* C2 amended: allocate(N, path) with N >= 0 and path not a directory leaves
\* the file with length exactly N (created, grown or shrunk); with N > 0 it
\* returns a live file-backed region with allocatedLength == fileLength ==
\* buffer length == N, an open file handle on path and the descriptor of
\* that handle; with N == 0 it fails with a MappingError and returns no
\* region.
C2_FileAllocate ==
    [][ (IsMalloc(last') /\ last'.path # "" /\ last'.size >= 0
            /\ ~dirExists(last'.path)) =>
            /\ fs'[last'.path] = [kind |-> "file", len |-> last'.size]
            /\ (last'.size > 0 =>
                  /\ last'.res = "ok"
                  /\ ReturnedNew(last')
                  /\ regs'[last'.ret].Path = last'.path
                  /\ FileShape(regs'[last'.ret], last'.size))
            /\ (last'.size = 0 =>
                  /\ last'.res = "MappingError"
                  /\ regs' = regs) ]_vars

\* a second allocate on the same path, shrinking the file the first one
\* sized, returned a live region
C2_Witness ==
    /\ last.op = "Malloc" /\ last.res = "ok" /\ last.path = "f"
    /\ last.size = 1 /\ last.ret = 2
    /\ regs[1].Path = "f" /\ regs[1].BytesAlloc = MaxSize
    /\ regs[2].BytesAlloc = 1 /\ fs["f"].len = 1
    /\ regs[2].File = 2 /\ regs[2].Fd = files[2].fd

\* C3 as stated: allocate(sizeBytes, path) with sizeBytes negative and path
\* an existing file of length M returns a live region with allocatedLength
\* == fileLength == M, and the file's length is still M.
C3_InheritSizeFromZero ==
    [][ (IsMalloc(last') /\ last'.path # "" /\ last'.size < 0
            /\ fileExists(last'.path)) =>
            /\ fs'[last'.path] = fs[last'.path]
            /\ last'.res = "ok"
            /\ ReturnedNew(last')
            /\ FileShape(regs'[last'.ret], fs[last'.path].len) ]_vars

\* C3 amended: allocate(sizeBytes, path) with sizeBytes negative and path an
\* existing file of length M leaves the file's length M; with M > 0 it
\* returns a live region with allocatedLength == fileLength == buffer length
\* == M; with M == 0 it fails with a MappingError and returns no region.
C3_InheritSize ==
    [][ (IsMalloc(last') /\ last'.path # "" /\ last'.size < 0
            /\ fileExists(last'.path)) =>
            /\ fs'[last'.path] = fs[last'.path]
            /\ (fs[last'.path].len > 0 =>
                  /\ last'.res = "ok"
                  /\ ReturnedNew(last')
                  /\ regs'[last'.ret].Path = last'.path
                  /\ FileShape(regs'[last'.ret], fs[last'.path].len))
            /\ (fs[last'.path].len = 0 =>
                  /\ last'.res = "MappingError"
                  /\ regs' = regs) ]_vars

\* allocate(-1, "f") inherited the size a TruncateTo on an earlier region
\* had given the file
C3_Witness ==
    /\ last.op = "Malloc" /\ last.res = "ok" /\ last.size < 0 /\ last.ret = 2
    /\ regs[2].BytesAlloc = fs["f"].len /\ regs[2].FileBytesLen = fs["f"].len
    /\ regs[1].Path = "f" /\ regs[1].BytesAlloc # fs["f"].len
    /\ fs["f"].len = MaxSize

\* C4: allocate with a negative size and no path, or with a path that is a
\* directory, fails with a ConfigurationError and has no side effect: no
\* file created, opened or truncated, no region or mapping made.
C4_RejectsBeforeSideEffect ==
    [][ (IsMalloc(last')
            /\ \/ (last'.path = "" /\ last'.size < 0)
               \/ (last'.path # "" /\ dirExists(last'.path))) =>
            /\ last'.res = "ConfigurationError"
            /\ last'.ret = 0
            /\ UNCHANGED <<fs, files, regs>> ]_vars

\* allocate on the directory was rejected while a file-backed region was live
C4_Witness ==
    /\ last.op = "Malloc" /\ last.res = "ConfigurationError"
    /\ last.path = "d" /\ last.size > 0
    /\ fs["d"].kind = "dir"
    /\ Len(regs) = 1 /\ Len(files) = 1

\* the operand of the call is a file-backed region: it was created on a path
FileBacked(mm) == mm.Path # ""

\* C5: for a live file-backed region old, grow(old, newSize) with newSize
\* strictly greater than old.allocatedLength and old.fileLength succeeds,
\* truncates the file to newSize and returns a live region with
\* allocatedLength == fileLength == newSize and old's path and descriptor;
\* with newSize <= old.allocatedLength it fails with ConfigurationError.
C5_GrowSucceeds ==
    [][ (last'.op = "Growmap" /\ FileBacked(regs[last'.reg])
            /\ Live(regs[last'.reg])) =>
            LET old == regs[last'.reg] IN
            /\ (last'.size > old.BytesAlloc /\ last'.size > old.FileBytesLen) =>
                  /\ last'.res = "ok"
                  /\ fs'[old.Path] = [kind |-> "file", len |-> last'.size]
                  /\ ReturnedNew(last')
                  /\ Live(regs'[last'.ret])
                  /\ regs'[last'.ret].BytesAlloc = last'.size
                  /\ regs'[last'.ret].FileBytesLen = last'.size
                  /\ regs'[last'.ret].Path = old.Path
                  /\ regs'[last'.ret].Fd = old.Fd
            /\ (last'.size <= old.BytesAlloc) =>
                  last'.res = "ConfigurationError" ]_vars

\* the region has been freed: Free has unmapped its buffer
Freed(mm) == ~Live(mm)

\* C6: after free(region), every further operation on that region (free,
\* truncateFile, blockUntilSync, backgroundSync, grow) fails with an error
\* and touches neither the file nor the released mapping.
C6_FreedRegionRejectsAll ==
    [][ (last'.op \in {"Free", "TruncateTo", "BlockUntilSync",
                       "BackgroundSync", "Growmap"}
            /\ Freed(regs[last'.reg])) =>
            /\ last'.res # "ok"
            /\ UNCHANGED <<fs, regs>> ]_vars

\* C7: grow and truncateFile on a region created with path == "" fail with
\* ConfigurationError for every size, and leave the region (and the
\* filesystem and the file table) unchanged.
C7_AnonymousRejected ==
    [][ (last'.op \in {"Growmap", "TruncateTo"}
            /\ ~FileBacked(regs[last'.reg])) =>
            /\ last'.res = "ConfigurationError"
            /\ last'.ret = 0
            /\ UNCHANGED <<fs, files, regs>> ]_vars

\* truncateFile was rejected on a live anonymous region
C7_Witness ==
    /\ last.op = "TruncateTo" /\ last.res = "ConfigurationError"
    /\ regs[last.reg].Path = "" /\ Live(regs[last.reg])
    /\ regs[last.reg].Fd = AnonFd
    /\ last.size > regs[last.reg].BytesAlloc

\* C8: every live region has buffer length == allocatedLength, in every
\* reachable state; truncateFile changes the file's length only and leaves
\* every region (buffer length and allocatedLength included) as it was.
C8_BufferLenIsAllocated ==
    [][ /\ \A r \in 1..Len(regs') :
              Live(regs'[r]) =>
                  /\ regs'[r].MMap.len = regs'[r].BytesAlloc
                  /\ regs'[r].Mem.len = regs'[r].BytesAlloc
        /\ (last'.op = "TruncateTo") =>
              /\ regs' = regs
              /\ (last'.res = "ok" =>
                    fs'[last'.path] = [kind |-> "file", len |-> last'.size]) ]_vars

\* truncateFile gave the file a length other than that of the live region's
\* buffer
C8_Witness ==
    /\ last.op = "TruncateTo" /\ last.res = "ok"
    /\ Live(regs[last.reg])
    /\ fs[regs[last.reg].Path].len # regs[last.reg].BytesAlloc
    /\ regs[last.reg].Mem.len = regs[last.reg].BytesAlloc

\* C9: grow on a file-backed region never reduces the file's actual length,
\* whatever truncateFile calls came before; a newSize not strictly greater
\* than both the region's allocatedLength and the file's current length is
\* rejected with ConfigurationError, the file's length unchanged.
C9_GrowNeverShrinksFile ==
    [][ (last'.op = "Growmap" /\ FileBacked(regs[last'.reg])) =>
            LET old == regs[last'.reg] IN
            /\ fs'[old.Path].len >= fs[old.Path].len
            /\ (last'.size <= old.BytesAlloc \/ last'.size <= fs[old.Path].len) =>
                  /\ last'.res = "ConfigurationError"
                  /\ fs' = fs ]_vars

\* the regions whose file handle is h
Owners(rs, h) == {r \in 1..Len(rs) : rs[r].File = h}

\* C10: a descriptor is closed at most once, and exactly once when every
\* region that refers to it has been freed; grow with valid arguments
\* returns a new region that owns the descriptor, the old region no longer
\* owning it, so that free(old) closes nothing and free(new) closes it.
C10_GrowHandsOverDescriptor ==
    [][ /\ \A h \in 1..Len(files') :
              /\ files'[h].nclose <= 1
              /\ (Owners(regs', h) # {}
                     /\ \A r \in Owners(regs', h) : Freed(regs'[r])) =>
                    files'[h].nclose = 1
        /\ (last'.op = "Growmap" /\ FileBacked(regs[last'.reg])
                /\ Live(regs[last'.reg])
                /\ last'.size > regs[last'.reg].BytesAlloc
                /\ last'.size > regs[last'.reg].FileBytesLen) =>
              /\ last'.res = "ok"
              /\ ReturnedNew(last')
              /\ regs'[last'.ret].File = regs[last'.reg].File
              /\ regs'[last'.reg].File = NilFile
        /\ (last'.op = "Free" /\ regs[last'.reg].File = NilFile) =>
              files' = files ]_vars

====
